---- MODULE Spec2Model ----
(***************************************************************************)
(* Model of model_diff.py (3D model comparison): load_model, diff_models,  *)
(* compute_metrics, print_report, get_json_metrics, run_diff and the tail  *)
(* of main.                                                                *)
(*                                                                         *)
(* Numbers.  Python floats are modelled as exact rationals <<n, d>> in     *)
(* lowest terms with d > 0; rounding of IEEE doubles is not modelled.      *)
(*                                                                         *)
(* Geometry kernel.  build123d is external.  A solid is a set of unit      *)
(* cubes on the X axis: cube i occupies [i-1, i] x [0, 1] x [0, 1].        *)
(* Boolean operations are set operations, volume is the number of cubes.   *)
(* Every measurement query that the code guards with try/except may raise. *)
(***************************************************************************)
EXTENDS Integers, Sequences, FiniteSets, TLC

VARIABLES
    pc,             \* position of the run
    args,           \* parsed command line: [json, no_export]
    reference,      \* solid A
    generated,      \* solid B
    missing,        \* A - B
    extra,          \* B - A
    common,         \* A & B
    metrics,        \* the metrics dict: function from key to tagged value
    raised_in,      \* enrichment blocks in which a kernel query has raised
    attempted,      \* file names handed to export_gltf, in order
    export_failed,  \* file names whose export raised
    exc,            \* exception that ended the run, or "none"
    report,         \* sections print_report has printed
    json_out,       \* result of get_json_metrics as printed by main
    filepath,       \* load_model: argument
    loaded          \* load_model: outcome

vars == <<pc, args, reference, generated, missing, extra, common, metrics,
          raised_in, attempted, export_failed, exc, report, json_out, filepath, loaded>>

\* ------------------------------------------------------------------ bounds

\* number of unit cubes of the grid the solids are drawn from
MaxCells == 3

\* ---------------------------------------------------------------- numbers

Abs(n) == IF n < 0 THEN -n ELSE n

RECURSIVE GCD(_, _)
GCD(a, b) == IF b = 0 THEN a ELSE GCD(b, a % b)

\* the rational n/d (d > 0) in lowest terms
Rat(n, d) == LET g == GCD(Abs(n), d) IN <<n \div g, d \div g>>

Float(n) == <<n, 1>>

RAdd(a, b) == Rat(a[1] * b[2] + b[1] * a[2], a[2] * b[2])
RSub(a, b) == Rat(a[1] * b[2] - b[1] * a[2], a[2] * b[2])
RMul(a, b) == Rat(a[1] * b[1], a[2] * b[2])
\* a / b for b # 0
RDiv(a, b) == IF b[1] > 0 THEN Rat(a[1] * b[2], a[2] * b[1])
                          ELSE Rat(-(a[1] * b[2]), a[2] * (-b[1]))
RLt(a, b) == a[1] * b[2] < b[1] * a[2]
RGt(a, b) == RLt(b, a)
RLe(a, b) == ~RLt(b, a)
RMax(a, b) == IF RLt(a, b) THEN b ELSE a
RMin(a, b) == IF RLt(b, a) THEN b ELSE a

Zero == Float(0)
One == Float(1)

ISqrt(n) == CHOOSE k \in 0..n : k * k = n
\* q ** 0.5 for a q that is the square of a rational
RSqrt(q) == <<ISqrt(q[1]), ISqrt(q[2])>>

\* ----------------------------------------------------------------- solids

Cells == 1..MaxCells
Solids == SUBSET Cells

RECURSIVE SumSet(_)
SumSet(S) == IF S = {} THEN 0
             ELSE LET x == CHOOSE y \in S : TRUE IN x + SumSet(S \ {x})

SetMin(S) == CHOOSE x \in S : \A y \in S : x <= y
SetMax(S) == CHOOSE x \in S : \A y \in S : y <= x

\* maximal runs of adjacent cubes: each is one box
Runs(s) == Cardinality({i \in s : (i - 1) \notin s})

\* shape.volume
Volume(s) == Float(Cardinality(s))

\* shape.center() of a solid that is not empty: the centroid
CenterOf(s) ==
    <<Rat(SumSet({2 * i - 1 : i \in s}), 2 * Cardinality(s)), Rat(1, 2), Rat(1, 2)>>

\* shape.bounding_box(): [min, max]
BoundingBoxOf(s) ==
    IF s = {} THEN [min |-> <<Zero, Zero, Zero>>, max |-> <<Zero, Zero, Zero>>]
    ELSE [min |-> <<Float(SetMin(s) - 1), Zero, Zero>>,
          max |-> <<Float(SetMax(s)), One, One>>]

\* shape.area
AreaOf(s) == Float(4 * Cardinality(s) + 2 * Runs(s))

\* len(shape.faces()), len(shape.edges()), len(shape.vertices())
FacesOf(s) == 6 * Runs(s)
EdgesOf(s) == 12 * Runs(s)
VerticesOf(s) == 8 * Runs(s)

\* what a kernel query can produce: its value, or a raised exception
Ok(value) == [ok |-> TRUE, val |-> value]
Raises == [ok |-> FALSE, val |-> <<>>]
Outcomes(value) == {Ok(value), Raises}

\* shape.center(): an empty solid has no centroid and the query raises
CenterOutcomes(s) == IF s = {} THEN {Raises} ELSE Outcomes(CenterOf(s))

\* ---------------------------------------------------------- metric values

FloatV(q) == [t |-> "float", v |-> q]
IntV(n) == [t |-> "int", v |-> n]
TupleV(p) == [t |-> "tuple", v |-> p]
NoneV == [t |-> "None", v |-> <<>>]

EmptyDict == <<>>

Has(m, k) == k \in DOMAIN m
\* dict.get(k): None when the key is missing
Get(m, k) == IF Has(m, k) THEN m[k] ELSE NoneV
\* m[k] = v
Put(m, k, v) == [x \in (DOMAIN m) \cup {k} |-> IF x = k THEN v ELSE m[x]]

\* -------------------------------------------------------- compute_metrics

\* vol_union = vol_ref + vol_gen - vol_common
VolUnionDoubleCount(vol_ref, vol_gen, vol_common) ==
    RSub(RSub(RAdd(vol_ref, vol_gen), vol_common), vol_common)
VolUnion(vol_ref, vol_gen, vol_common) ==
    RSub(RAdd(vol_ref, vol_gen), vol_common)

\* metrics["iou"]
Iou(vol_common, vol_union) ==
    IF RGt(vol_union, Zero) THEN RDiv(vol_common, vol_union) ELSE One

\* metrics["dice"]
DiceNoFactor(vol_ref, vol_gen, vol_common) ==
    LET denom == RAdd(vol_ref, vol_gen)
    IN IF RGt(denom, Zero) THEN RDiv(vol_common, denom) ELSE One
Dice(vol_ref, vol_gen, vol_common) ==
    LET denom == RAdd(vol_ref, vol_gen)
    IN IF RGt(denom, Zero) THEN RDiv(RMul(Float(2), vol_common), denom) ELSE One

\* metrics["precision"]
PrecisionFallbackOne(vol_common, vol_gen) ==
    IF RGt(vol_gen, Zero) THEN RDiv(vol_common, vol_gen) ELSE One
Precision(vol_common, vol_gen) ==
    IF RGt(vol_gen, Zero) THEN RDiv(vol_common, vol_gen) ELSE Zero

\* metrics["recall"]
Recall(vol_common, vol_ref) ==
    IF RGt(vol_ref, Zero) THEN RDiv(vol_common, vol_ref) ELSE Zero

\* metrics["f1"]
F1NoFactor(p, r) ==
    IF RGt(RAdd(p, r), Zero) THEN RDiv(RMul(p, r), RAdd(p, r)) ELSE Zero
F1(p, r) ==
    IF RGt(RAdd(p, r), Zero)
    THEN RDiv(RMul(RMul(Float(2), p), r), RAdd(p, r)) ELSE Zero

\* metrics["volume_ratio"]
VolumeRatio(vol_gen, vol_ref) ==
    IF RGt(vol_ref, Zero) THEN RDiv(vol_gen, vol_ref) ELSE Zero

PrimaryKeys == {"iou", "dice", "precision", "recall", "f1"}
VolumeKeys == {"volume_reference", "volume_generated", "volume_intersection",
               "volume_union", "volume_ratio"}

\* the primary and volume metrics of a fresh dict
PrimaryAndVolume(ref, gen, com) ==
    LET vol_ref == Volume(ref)
        vol_gen == Volume(gen)
        vol_common == Volume(com)
        vol_union == VolUnion(vol_ref, vol_gen, vol_common)
        p == Precision(vol_common, vol_gen)
        r == Recall(vol_common, vol_ref)
    IN [k \in PrimaryKeys \cup VolumeKeys |->
          FloatV(CASE k = "iou" -> Iou(vol_common, vol_union)
                   [] k = "dice" -> Dice(vol_ref, vol_gen, vol_common)
                   [] k = "precision" -> p
                   [] k = "recall" -> r
                   [] k = "f1" -> F1(p, r)
                   [] k = "volume_reference" -> vol_ref
                   [] k = "volume_generated" -> vol_gen
                   [] k = "volume_intersection" -> vol_common
                   [] k = "volume_union" -> vol_union
                   [] k = "volume_ratio" -> VolumeRatio(vol_gen, vol_ref))]

Sq(a) == RMul(a, a)

SpatialKeys == {"center_offset", "center_reference", "center_generated"}

\* the spatial block; cr, cg: outcomes of reference.center(), generated.center()
SpatialStoresAsItGoes(m, cr, cg) ==
    IF cr.ok /\ cg.ok
    THEN Put(Put(Put(m, "center_offset",
                     FloatV(RSqrt(RAdd(RAdd(Sq(RSub(cg.val[1], cr.val[1])),
                                            Sq(RSub(cg.val[2], cr.val[2]))),
                                       Sq(RSub(cg.val[3], cr.val[3])))))),
                 "center_reference", TupleV(cr.val)),
             "center_generated", TupleV(cg.val))
    ELSE IF cr.ok
    THEN Put(Put(m, "center_reference", TupleV(cr.val)), "center_offset", NoneV)
    ELSE Put(m, "center_offset", NoneV)
Spatial(m, cr, cg) ==
    IF cr.ok /\ cg.ok
    THEN LET center_ref == cr.val
             center_gen == cg.val
             offset == RSqrt(RAdd(RAdd(Sq(RSub(center_gen[1], center_ref[1])),
                                       Sq(RSub(center_gen[2], center_ref[2]))),
                                  Sq(RSub(center_gen[3], center_ref[3]))))
         IN Put(Put(Put(m, "center_offset", FloatV(offset)),
                    "center_reference", TupleV(center_ref)),
                "center_generated", TupleV(center_gen))
    ELSE Put(m, "center_offset", NoneV)

SizeRatio(size_gen, size_ref) ==
    IF RGt(size_ref, Zero) THEN RDiv(size_gen, size_ref) ELSE Zero

BBoxKeys == {"bbox_size_reference", "bbox_size_generated", "size_ratio_x",
             "size_ratio_y", "size_ratio_z", "bbox_iou"}

\* the bounding-box block; br, bg: outcomes of the two bounding_box() calls
BBox(m, br, bg) ==
    IF br.ok /\ bg.ok
    THEN LET bb_ref == br.val
             bb_gen == bg.val
             size_ref == [i \in 1..3 |-> RSub(bb_ref.max[i], bb_ref.min[i])]
             size_gen == [i \in 1..3 |-> RSub(bb_gen.max[i], bb_gen.min[i])]
             lo == [i \in 1..3 |-> RMax(bb_ref.min[i], bb_gen.min[i])]
             hi == [i \in 1..3 |-> RMin(bb_ref.max[i], bb_gen.max[i])]
             intersection_vol ==
                 RMul(RMul(RMax(Zero, RSub(hi[1], lo[1])),
                           RMax(Zero, RSub(hi[2], lo[2]))),
                      RMax(Zero, RSub(hi[3], lo[3])))
             box_vol_ref == RMul(RMul(size_ref[1], size_ref[2]), size_ref[3])
             box_vol_gen == RMul(RMul(size_gen[1], size_gen[2]), size_gen[3])
             box_union == RSub(RAdd(box_vol_ref, box_vol_gen), intersection_vol)
             bbox_iou == IF RGt(box_union, Zero)
                         THEN RDiv(intersection_vol, box_union) ELSE One
         IN [k \in (DOMAIN m) \cup BBoxKeys |->
               CASE k = "bbox_size_reference" -> TupleV(size_ref)
                 [] k = "bbox_size_generated" -> TupleV(size_gen)
                 [] k = "size_ratio_x" -> FloatV(SizeRatio(size_gen[1], size_ref[1]))
                 [] k = "size_ratio_y" -> FloatV(SizeRatio(size_gen[2], size_ref[2]))
                 [] k = "size_ratio_z" -> FloatV(SizeRatio(size_gen[3], size_ref[3]))
                 [] k = "bbox_iou" -> FloatV(bbox_iou)
                 [] OTHER -> m[k]]
    ELSE Put(m, "bbox_iou", NoneV)

SurfaceKeys == {"surface_reference", "surface_generated", "surface_ratio"}

\* the surface block; ar, ag: outcomes of reference.area, generated.area
Surface(m, ar, ag) ==
    IF ~ar.ok THEN Put(m, "surface_ratio", NoneV)
    ELSE IF ~ag.ok
    THEN Put(Put(m, "surface_reference", FloatV(ar.val)), "surface_ratio", NoneV)
    ELSE Put(Put(Put(m, "surface_reference", FloatV(ar.val)),
                 "surface_generated", FloatV(ag.val)),
             "surface_ratio",
             FloatV(IF RGt(ar.val, Zero) THEN RDiv(ag.val, ar.val) ELSE Zero))

\* the topology keys in the order the code assigns them
TopoOrder == <<"faces_reference", "faces_generated", "edges_reference",
               "edges_generated", "vertices_reference", "vertices_generated">>
TopoKeys == {TopoOrder[i] : i \in 1..6}

TopoCount(k, ref, gen) ==
    CASE k = "faces_reference" -> FacesOf(ref)
      [] k = "faces_generated" -> FacesOf(gen)
      [] k = "edges_reference" -> EdgesOf(ref)
      [] k = "edges_generated" -> EdgesOf(gen)
      [] k = "vertices_reference" -> VerticesOf(ref)
      [] k = "vertices_generated" -> VerticesOf(gen)

\* the topology block when the first n count queries succeed and, for n < 6,
\* the next one raises
Topology(m, ref, gen, n) ==
    LET done == {TopoOrder[i] : i \in 1..n}
    IN [k \in (DOMAIN m) \cup done |->
          IF k \in done THEN IntV(TopoCount(k, ref, gen)) ELSE m[k]]

\* ----------------------------------------------------------- print_report

\* f-string "{x:...f}" of a metric value: raises TypeError on None
IsNone(v) == v.t = "None"

\* bool(v) of a metric value, as tested by "if metrics.get(...)"
Truthy(v) ==
    CASE v.t = "None" -> FALSE
      [] v.t = "float" -> v.v[1] # 0
      [] v.t = "int" -> v.v # 0
      [] OTHER -> TRUE

IouBand(iou) ==
    IF RGt(iou, Rat(95, 100)) THEN "excellent"
    ELSE IF RGt(iou, Rat(8, 10)) THEN "good"
    ELSE IF RGt(iou, Rat(5, 10)) THEN "partial"
    ELSE "poor"

\* the imbalance line, if any
Imbalance(p, r) ==
    IF RLt(p, RSub(r, Rat(5, 100))) THEN <<"over-generating">>
    ELSE IF RLt(r, RSub(p, Rat(5, 100))) THEN <<"under-generating">>
    ELSE <<>>

\* the size line, if any
SizeFlag(volume_ratio) ==
    IF RLt(volume_ratio, Rat(95, 100)) THEN <<"undersized">>
    ELSE IF RGt(volume_ratio, Rat(105, 100)) THEN <<"oversized">>
    ELSE <<>>

\* print_report: [raised, lines], the sections printed before it returned or
\* raised
PrintReport(mis, ext, m) ==
    LET volumes == <<"header", "volumes">>
        diag == <<"missing", "extra", "primary", "volume_ratio">>
                \o (IF Truthy(Get(m, "surface_ratio")) THEN <<"surface_ratio">> ELSE <<>>)
                \o (IF ~IsNone(Get(m, "center_offset")) THEN <<"center_offset">> ELSE <<>>)
                \o (IF ~IsNone(Get(m, "bbox_iou")) THEN <<"bbox">> ELSE <<>>)
        topo == ~IsNone(Get(m, "faces_reference"))
        interp == <<IouBand(m["iou"].v)>>
                  \o Imbalance(m["precision"].v, m["recall"].v)
                  \o SizeFlag(m["volume_ratio"].v)
        \* metrics.get('center_offset', 0): the default only when the key is missing
        offset == IF Has(m, "center_offset") THEN m["center_offset"] ELSE IntV(0)
    IN IF m["volume_reference"].v = Zero
       THEN [raised |-> "ZeroDivisionError", lines |-> volumes]
       ELSE IF m["volume_generated"].v = Zero
       THEN [raised |-> "ZeroDivisionError", lines |-> volumes \o <<"missing">>]
       ELSE IF topo /\ ~(TopoKeys \subseteq DOMAIN m)
       THEN [raised |-> "KeyError", lines |-> volumes \o diag \o <<"topology">>]
       ELSE IF IsNone(offset)
       THEN [raised |-> "TypeError",
             lines |-> volumes \o diag \o (IF topo THEN <<"topology">> ELSE <<>>)
                       \o interp]
       ELSE [raised |-> "none",
             lines |-> volumes \o diag \o (IF topo THEN <<"topology">> ELSE <<>>)
                       \o interp
                       \o (IF offset.t = "float" /\ RGt(offset.v, One)
                           THEN <<"offset">> ELSE <<>>)
                       \o <<"footer">>]

\* -------------------------------------------------------- get_json_metrics

JsonScalar == {"int", "float", "str", "bool"}

GetJsonMetricsKeepNone(m) ==
    [k \in DOMAIN m |-> IF m[k].t = "tuple" THEN [t |-> "list", v |-> m[k].v] ELSE m[k]]
GetJsonMetrics(m) ==
    LET kept == {k \in DOMAIN m : ~IsNone(m[k]) /\ m[k].t \in JsonScalar \cup {"tuple"}}
    IN [k \in kept |-> IF m[k].t \in JsonScalar THEN m[k]
                        ELSE [t |-> "list", v |-> m[k].v]]

\* -------------------------------------------------------------- load_model

\* characters as one-letter strings; a suffix is a sequence of them
LowerChars == <<"b", "e", "j", "l", "o", "p", "r", "s", "t">>
UpperChars == <<"B", "E", "J", "L", "O", "P", "R", "S", "T">>

\* str.lower() on one character
LowerChar(c) ==
    IF \E i \in 1..Len(UpperChars) : UpperChars[i] = c
    THEN LowerChars[CHOOSE i \in 1..Len(UpperChars) : UpperChars[i] = c]
    ELSE c
UpperChar(c) ==
    IF \E i \in 1..Len(LowerChars) : LowerChars[i] = c
    THEN UpperChars[CHOOSE i \in 1..Len(LowerChars) : LowerChars[i] = c]
    ELSE c

\* str.lower()
Lower(str) == [i \in 1..Len(str) |-> LowerChar(str[i])]

DotStep == <<".", "s", "t", "e", "p">>
DotStp == <<".", "s", "t", "p">>
DotBrep == <<".", "b", "r", "e", "p">>
DotStl == <<".", "s", "t", "l">>
DotObj == <<".", "o", "b", "j">>

SUPPORTED_FORMATS == {DotStep, DotStp, DotBrep, DotStl}

\* the suffixes of the paths tried: every spelling, in either case, of the
\* supported extensions, of .obj and of no extension
CaseVariants(str) ==
    {[i \in 1..Len(str) |-> IF i \in U THEN UpperChar(str[i]) ELSE str[i]] :
        U \in SUBSET (1..Len(str))}
Suffixes == UNION {CaseVariants(b) : b \in SUPPORTED_FORMATS \cup {DotObj, <<>>}}

\* a path, as far as load_model looks at it: path.exists() and path.suffix
Paths == [exists : BOOLEAN, suffix : Suffixes]

\* suffix = path.suffix.lower()
SuffixAsWritten(path) == path.suffix
SuffixOf(path) == Lower(path.suffix)

NotLoaded == [kind |-> "none"]

\* load_model(filepath), the import's outcome being imp
LoadModelResult(path, imp) ==
    LET suffix == SuffixOf(path)
        importer == IF suffix \in {DotStep, DotStp} THEN "import_step"
                    ELSE IF suffix = DotBrep THEN "import_brep"
                    ELSE IF suffix = DotStl THEN "import_stl"
                    ELSE "none"
    IN IF ~path.exists
       THEN [kind |-> "FileNotFoundError"]
       ELSE IF importer = "none"
       THEN [kind |-> "ValueError", suffix |-> suffix, supported |-> SUPPORTED_FORMATS]
       ELSE IF imp.ok
       THEN [kind |-> "returned", importer |-> importer, shape |-> imp.val]
       ELSE [kind |-> "KernelFailure", importer |-> importer]

\* ---------------------------------------------------------------- actions

\* a local that is not assigned yet
Unset == {0}

ExportNames == <<"diff_reference.glb", "diff_generated.glb", "diff_missing.glb",
                 "diff_extra.glb", "diff_common.glb">>

\* export_glb = not args.no_export and not args.json
ExportGlb == ~args.no_export /\ ~args.json

PipelineIdle ==
    /\ args = [json |-> FALSE, no_export |-> FALSE]
    /\ reference = Unset
    /\ generated = Unset

LoadIdle ==
    /\ filepath = [exists |-> FALSE, suffix |-> <<>>]

\* either a call of load_model on a path, or main from its call of run_diff
\* on two loaded (or demo) solids
Init ==
    /\ missing = Unset
    /\ extra = Unset
    /\ common = Unset
    /\ metrics = EmptyDict
    /\ raised_in = {}
    /\ attempted = <<>>
    /\ export_failed = {}
    /\ exc = "none"
    /\ report = <<>>
    /\ json_out = EmptyDict
    /\ loaded = NotLoaded
    /\ \/ /\ pc = "load_model"
          /\ filepath \in Paths
          /\ PipelineIdle
       \/ /\ pc = "run_diff"
          /\ args \in [json : BOOLEAN, no_export : BOOLEAN]
          /\ reference \in Solids
          /\ generated \in Solids
          /\ LoadIdle

LoadModel ==
    /\ pc = "load_model"
    /\ \E imp \in {Ok(shape) : shape \in Solids} \cup {Raises} :
          loaded' = LoadModelResult(filepath, imp)
    /\ pc' = "loaded"
    /\ UNCHANGED <<args, reference, generated, missing, extra, common, metrics,
                   raised_in,
                   attempted, export_failed, exc, report, json_out, filepath>>

\* diff_models; a boolean operation that raises ends the run
DiffModels ==
    /\ pc = "run_diff"
    /\ \/ /\ missing' = reference \ generated
          /\ extra' = generated \ reference
          /\ common' = reference \cap generated
          /\ pc' = "primary"
          /\ exc' = exc
       \/ /\ exc' = "KernelFailure"
          /\ pc' = "raised"
          /\ UNCHANGED <<missing, extra, common>>
    /\ UNCHANGED <<args, reference, generated, metrics, raised_in, attempted,
                   export_failed,
                   report, json_out, filepath, loaded>>

MetricsFrame == <<args, reference, generated, missing, extra, common, attempted,
                  export_failed, exc, report, json_out, filepath, loaded>>

\* compute_metrics, primary and volume metrics
PrimaryBlock ==
    /\ pc = "primary"
    /\ metrics' = PrimaryAndVolume(reference, generated, common)
    /\ raised_in' = raised_in
    /\ pc' = "spatial"
    /\ UNCHANGED MetricsFrame

SpatialBlock ==
    /\ pc = "spatial"
    /\ \E cr \in CenterOutcomes(reference), cg \in CenterOutcomes(generated) :
          /\ metrics' = Spatial(metrics, cr, cg)
          /\ raised_in' = IF cr.ok /\ cg.ok THEN raised_in
                           ELSE raised_in \cup {"spatial"}
    /\ pc' = "bbox"
    /\ UNCHANGED MetricsFrame

BBoxBlock ==
    /\ pc = "bbox"
    /\ \E br \in Outcomes(BoundingBoxOf(reference)),
          bg \in Outcomes(BoundingBoxOf(generated)) :
          /\ metrics' = BBox(metrics, br, bg)
          /\ raised_in' = IF br.ok /\ bg.ok THEN raised_in
                           ELSE raised_in \cup {"bbox"}
    /\ pc' = "surface"
    /\ UNCHANGED MetricsFrame

SurfaceBlock ==
    /\ pc = "surface"
    /\ \E ar \in Outcomes(AreaOf(reference)), ag \in Outcomes(AreaOf(generated)) :
          /\ metrics' = Surface(metrics, ar, ag)
          /\ raised_in' = IF ar.ok /\ ag.ok THEN raised_in
                           ELSE raised_in \cup {"surface"}
    /\ pc' = "topology"
    /\ UNCHANGED MetricsFrame

\* the topology block, then the return to run_diff
TopologyBlock ==
    /\ pc = "topology"
    /\ \E n \in 0..6 :
          /\ metrics' = Topology(metrics, reference, generated, n)
          /\ raised_in' = IF n = 6 THEN raised_in ELSE raised_in \cup {"topology"}
    /\ pc' = IF ExportGlb THEN "export" ELSE "output"
    /\ UNCHANGED MetricsFrame

\* one iteration of the export loop of run_diff
ExportOneAbortOnFailure ==
    /\ pc = "export"
    /\ LET i == Len(attempted) + 1
       IN /\ attempted' = Append(attempted, ExportNames[i])
          /\ \/ /\ export_failed' = export_failed
                /\ pc' = IF i = Len(ExportNames) THEN "output" ELSE "export"
             \/ /\ export_failed' = export_failed \cup {ExportNames[i]}
                /\ pc' = "output"
    /\ UNCHANGED <<args, reference, generated, missing, extra, common, metrics,
                   raised_in,
                   exc, report, json_out, filepath, loaded>>
ExportOne ==
    /\ pc = "export"
    /\ LET i == Len(attempted) + 1
       IN /\ attempted' = Append(attempted, ExportNames[i])
          /\ \/ export_failed' = export_failed
             \/ export_failed' = export_failed \cup {ExportNames[i]}
          /\ pc' = IF i = Len(ExportNames) THEN "output" ELSE "export"
    /\ UNCHANGED <<args, reference, generated, missing, extra, common, metrics,
                   raised_in,
                   exc, report, json_out, filepath, loaded>>

\* main after run_diff returned: the report and the JSON output
Output ==
    /\ pc = "output"
    /\ IF args.json
       THEN /\ json_out' = GetJsonMetrics(metrics)
            /\ pc' = "done"
            /\ UNCHANGED <<report, exc>>
       ELSE LET r == PrintReport(missing, extra, metrics)
            IN /\ report' = r.lines
               /\ exc' = r.raised
               /\ IF r.raised = "none"
                  THEN /\ json_out' = GetJsonMetrics(metrics)
                       /\ pc' = "done"
                  ELSE /\ json_out' = json_out
                       /\ pc' = "raised"
    /\ UNCHANGED <<args, reference, generated, missing, extra, common, metrics,
                   raised_in,
                   attempted, export_failed, filepath, loaded>>

Next ==
    \/ LoadModel
    \/ DiffModels
    \/ PrimaryBlock
    \/ SpatialBlock
    \/ BBoxBlock
    \/ SurfaceBlock
    \/ TopologyBlock
    \/ ExportOne
    \/ Output

Spec == Init /\ [][Next]_vars

\* ----------------------------------------------------------------- claims

\* compute_metrics has assigned the primary and volume metrics
PrimaryDone == Has(metrics, "iou")

\* compute_metrics has returned
MetricsReturned ==
    \/ pc \in {"export", "output", "done"}
    \/ pc = "raised" /\ exc # "KernelFailure"

\* an enrichment block failed: its marker is None, or topology is incomplete
Degraded ==
    \/ IsNone(Get(metrics, "center_offset"))
    \/ IsNone(Get(metrics, "bbox_iou"))
    \/ IsNone(Get(metrics, "surface_ratio"))
    \/ ~(TopoKeys \subseteq DOMAIN metrics)

PositiveVolumes == reference # {} /\ generated # {}

\* C1: in a default (non --json) run, when an enrichment query raised inside
\* compute_metrics, the run is not aborted: print_report and the JSON output
\* finish without raising.  (Stated for solids of positive volume; zero
\* volumes are the case of C2.)
C1_DegradedRunCompletes ==
    (MetricsReturned /\ ~args.json /\ PositiveVolumes /\ Degraded) => pc # "raised"

\* C2: for volumes >= 0, zero included, the default comparison completes
\* without a division error.
C2_NoDivisionError == exc # "ZeroDivisionError"

\* C3 as stated: comparing any solid A with itself gives iou = dice =
\* precision = recall = 1.0 and center_offset = 0.0.
C3_SelfComparisonAnySolid ==
    (PrimaryDone /\ reference = generated) =>
        /\ \A k \in {"iou", "dice", "precision", "recall"} : metrics[k] = FloatV(One)
        /\ Has(metrics, "center_offset") => metrics["center_offset"] = FloatV(Zero)

\* C3 amended: comparing a solid A of positive volume with itself gives iou =
\* dice = precision = recall = 1.0, and center_offset = 0.0 whenever both
\* center queries succeed (it is None when one of them raises).
C3_SelfComparison ==
    (PrimaryDone /\ reference = generated /\ reference # {}) =>
        /\ \A k \in {"iou", "dice", "precision", "recall"} : metrics[k] = FloatV(One)
        /\ Has(metrics, "center_offset") =>
              \/ IsNone(metrics["center_offset"])
              \/ /\ metrics["center_offset"] = FloatV(Zero)
                 /\ Has(metrics, "center_reference")
                 /\ metrics["center_reference"] = metrics["center_generated"]

C3_Witness ==
    /\ pc = "bbox"
    /\ reference = generated
    /\ Cardinality(reference) = 2
    /\ metrics["center_offset"].t = "float"
    /\ metrics["dice"] = FloatV(One)

\* C4 as stated: whenever the intersection has zero volume, for any volumes
\* of A and B that are >= 0, iou = precision = recall = 0.0.
C4_DisjointAllZero ==
    (PrimaryDone /\ common = {}) =>
        \A k \in {"iou", "precision", "recall"} : metrics[k] = FloatV(Zero)

\* C4 amended: whenever the intersection has zero volume, precision = recall
\* = 0.0, and iou = 0.0 if volume(A) + volume(B) > 0; if both volumes are
\* zero, iou = 1.0.
C4_Disjoint ==
    (PrimaryDone /\ common = {}) =>
        /\ metrics["precision"] = FloatV(Zero)
        /\ metrics["recall"] = FloatV(Zero)
        /\ metrics["iou"] = IF reference = {} /\ generated = {}
                            THEN FloatV(One) ELSE FloatV(Zero)

C4_Witness ==
    /\ PrimaryDone
    /\ common = {}
    /\ reference # {}
    /\ generated = {}
    /\ metrics["iou"] = FloatV(Zero)

C6_IouInUnitInterval ==
    (PrimaryDone /\ Cardinality(reference) + Cardinality(generated)
                        - Cardinality(common) > 0) =>
        /\ RLe(Zero, metrics["iou"].v)
        /\ RLe(metrics["iou"].v, One)

C6_Witness ==
    /\ PrimaryDone
    /\ Cardinality(reference) = 3
    /\ Cardinality(generated) = 2
    /\ metrics["iou"].v = Rat(2, 3)

\* C7: the mapping get_json_metrics returns has no key whose value is None:
\* it holds exactly the keys of metrics whose value is not None, and every
\* value is an int, float, str, bool, or the list made from a tuple.
C7_JsonHasNoNone ==
    pc = "done" =>
        /\ DOMAIN json_out = {k \in DOMAIN metrics : ~IsNone(metrics[k])}
        /\ \A k \in DOMAIN json_out :
              /\ json_out[k].t \in {"int", "float", "str", "bool", "list"}
              /\ json_out[k].t = "list" <=> metrics[k].t = "tuple"
              /\ json_out[k].v = metrics[k].v

C7_Witness ==
    /\ pc = "done"
    /\ IsNone(metrics["center_offset"])
    /\ IsNone(metrics["bbox_iou"])
    /\ IsNone(metrics["surface_ratio"])
    /\ Has(metrics, "surface_reference")
    /\ ~Has(json_out, "center_offset")
    /\ Has(json_out, "surface_reference")

\* C8: with export enabled, the five exports are each attempted exactly once,
\* in the order reference, generated, missing, extra, common, whichever of
\* them fail, and run_diff then returns the metrics and the three diff solids.
C8_ExportsAllAttempted ==
    ExportGlb =>
        /\ pc = "export" =>
              /\ Len(attempted) < Len(ExportNames)
              /\ attempted = SubSeq(ExportNames, 1, Len(attempted))
        /\ MetricsReturned /\ pc # "export" =>
              /\ attempted = ExportNames
              /\ export_failed \subseteq {ExportNames[i] : i \in 1..Len(ExportNames)}
              /\ PrimaryDone
              /\ missing = reference \ generated
              /\ extra = generated \ reference
              /\ common = reference \cap generated

C8_Witness ==
    /\ pc = "output"
    /\ ExportGlb
    /\ export_failed = {"diff_reference.glb", "diff_extra.glb"}
    /\ attempted = ExportNames

\* C9: load_model on a path that does not exist ends in the not-found error;
\* on an existing path whose lowercased extension is none of .step, .stp,
\* .brep, .stl it ends in the unsupported-format error naming the extension
\* and listing the recognized set; otherwise the import for the lowercased
\* extension is invoked and its error, if any, propagates.
C9_LoadModelOutcome ==
    pc = "loaded" =>
        LET ext == Lower(filepath.suffix)
        IN /\ ~filepath.exists => loaded.kind = "FileNotFoundError"
           /\ filepath.exists /\ ext \notin {DotStep, DotStp, DotBrep, DotStl} =>
                 /\ loaded.kind = "ValueError"
                 /\ loaded.suffix = ext
                 /\ loaded.supported = {DotStep, DotStp, DotBrep, DotStl}
           /\ filepath.exists /\ ext \in {DotStep, DotStp, DotBrep, DotStl} =>
                 /\ loaded.kind \in {"returned", "KernelFailure"}
                 /\ loaded.importer = (CASE ext \in {DotStep, DotStp} -> "import_step"
                                         [] ext = DotBrep -> "import_brep"
                                         [] ext = DotStl -> "import_stl")

C9_Witness ==
    /\ pc = "loaded"
    /\ filepath.exists
    /\ filepath.suffix = <<".", "S", "t", "P">>
    /\ loaded.kind = "returned"
    /\ loaded.importer = "import_step"

\* C10: if one of the six topology count queries raises, the returned metrics
\* contain none of the topology keys: the block is there as a whole or not
\* at all.
C10_TopologyAllOrNothing ==
    MetricsReturned =>
        \/ TopoKeys \subseteq DOMAIN metrics
        \/ TopoKeys \cap DOMAIN metrics = {}

\* compute_metrics has just returned its dict to run_diff
ComputeMetricsReturned ==
    \/ pc = "export" /\ attempted = <<>>
    \/ pc = "output" /\ ~ExportGlb

\* the keys of a block with the values they have when no query raises
NominalSpatial ==
    Spatial(EmptyDict, Ok(CenterOf(reference)), Ok(CenterOf(generated)))
NominalBBox ==
    BBox(EmptyDict, Ok(BoundingBoxOf(reference)), Ok(BoundingBoxOf(generated)))
NominalSurface ==
    Surface(EmptyDict, Ok(AreaOf(reference)), Ok(AreaOf(generated)))
NominalTopology == Topology(EmptyDict, reference, generated, 6)

\* C11: the spatial, bounding-box, surface and topology blocks are computed
\* in that order and fail independently: whichever blocks have a query that
\* raises, compute_metrics returns, the primary and volume metrics are all
\* present, every block that did not fail has all its keys with the values
\* of a run without failures, and a failed spatial or bounding-box block
\* leaves only its None marker and no other key of the block.
C11_BlocksIndependent ==
    /\ pc = "spatial" =>
          /\ DOMAIN metrics = PrimaryKeys \cup VolumeKeys
          /\ raised_in = {}
    /\ pc = "bbox" =>
          /\ Has(metrics, "center_offset")
          /\ DOMAIN metrics \cap (BBoxKeys \cup SurfaceKeys \cup TopoKeys) = {}
          /\ raised_in \subseteq {"spatial"}
    /\ pc = "surface" =>
          /\ Has(metrics, "bbox_iou")
          /\ DOMAIN metrics \cap (SurfaceKeys \cup TopoKeys) = {}
          /\ raised_in \subseteq {"spatial", "bbox"}
    /\ pc = "topology" =>
          /\ Has(metrics, "surface_ratio")
          /\ DOMAIN metrics \cap TopoKeys = {}
          /\ raised_in \subseteq {"spatial", "bbox", "surface"}
    /\ ComputeMetricsReturned =>
          /\ \A k \in PrimaryKeys \cup VolumeKeys :
                /\ Has(metrics, k)
                /\ metrics[k] = PrimaryAndVolume(reference, generated, common)[k]
          /\ IF "spatial" \in raised_in
             THEN /\ DOMAIN metrics \cap SpatialKeys = {"center_offset"}
                  /\ IsNone(metrics["center_offset"])
             ELSE \A k \in SpatialKeys :
                     Has(metrics, k) /\ metrics[k] = NominalSpatial[k]
          /\ IF "bbox" \in raised_in
             THEN /\ DOMAIN metrics \cap BBoxKeys = {"bbox_iou"}
                  /\ IsNone(metrics["bbox_iou"])
             ELSE \A k \in BBoxKeys :
                     Has(metrics, k) /\ metrics[k] = NominalBBox[k]
          /\ "surface" \notin raised_in =>
                \A k \in SurfaceKeys :
                   Has(metrics, k) /\ metrics[k] = NominalSurface[k]
          /\ "topology" \notin raised_in =>
                \A k \in TopoKeys :
                   Has(metrics, k) /\ metrics[k] = NominalTopology[k]

C11_Witness ==
    /\ ComputeMetricsReturned
    /\ raised_in = {"spatial", "surface"}
    /\ Cardinality(reference) = 2
    /\ Cardinality(missing) = 1
    /\ metrics["bbox_iou"].t = "float"
    /\ metrics["vertices_generated"] = IntV(VerticesOf(generated))
    /\ ~Has(metrics, "center_reference")

====
